---------------------------- MODULE Spec2Model ----------------------------
(***************************************************************************)
(* A model of errant's parallel_to_m2 driver (main, process_sentences) and *)
(* of the Hindi suffix stemmer (HindiStemmer.stem).                        *)
(*                                                                         *)
(* Spec      is the driver: one run of main over the line groups of the    *)
(*           parallel input files, with every call that can raise          *)
(*           (reading, parsing, annotating, opening, writing, serialising) *)
(*           allowed to raise.                                             *)
(* SpecStem  is the stemmer: a word is built character by character and    *)
(*           stem is applied to it.                                        *)
(***************************************************************************)
EXTENDS Integers, Sequences, FiniteSets

VARIABLES
    \* ---- the driver ----
    pc,           \* where main is
    nCor,         \* len(args.cor), the number of corrected files
    g,            \* number of line groups read so far; the current group
    orig,         \* token texts of the current original (temp1)
    cor_pos,      \* position (from 1) of the for loop in cors
    edits,        \* the edits of the current annotate call not yet handled
    error_count,  \* the Counter: [keys: insertion order, n: count per key]
    out_m2,       \* keys of the dict of open output handles (out_files)
    files,        \* contents of out/<name>/<name>.<ext>, a sequence of lines
    opened,       \* per path, the number of successful open() calls
    live,         \* per path, the number of handles now open
    error_file,   \* the tokens written to 'error_file'
    histWrites,   \* the number of times 'error_file' was written
    exc,          \* an exception is propagating out of the with block
    \* ---- history of the run ----
    failed,       \* groups in which some call raised
    owed,         \* the edits annotate returned in groups where no call raised
    last,         \* what the latest step of the run was
    nEdits,       \* the number of edits the annotate calls have returned
    nFail,        \* the number of calls that have raised
    cutShort,     \* edits whose block in the .m2 file lost its blank line
    \* ---- the stemmer ----
    word,         \* the argument of stem
    stemmed,      \* stem was applied to word
    result        \* what stem returned

driverVars ==
    <<pc, nCor, g, orig, cor_pos, edits, error_count, out_m2, files,
      opened, live, error_file, histWrites, exc>>

historyVars ==
    <<failed, owed, last, nEdits, nFail, cutShort>>

stemVars ==
    <<word, stemmed, result>>

vars ==
    <<driverVars, historyVars, stemVars>>

\* ------------------------------------------------------------------ bounds

MaxGroups ==
    2

MaxCor ==
    1

\* edits returned by all annotate calls of a run
MaxEdits ==
    2

\* calls that raise in a run
MaxFail ==
    1

MaxLen ==
    6

\* ----------------------------------------------------------------- helpers

Range(s) ==
    {s[i] : i \in DOMAIN s}

Max(S) ==
    CHOOSE x \in S : \A y \in S : y <= x

SeqsUpTo(S, n) ==
    UNION {[1..k -> S] : k \in 0..n}

\* ================================================================ stemmer

\* Devanagari code points, transliterated: _x is the vowel sign (matra) x,
\* a capital is the independent vowel, cb is candrabindu, an is anusvara.
suffixes ==
    <<
      <<<<"_o">>, <<"_e">>, <<"_uu">>, <<"_u">>, <<"_ii">>, <<"_i">>, <<"_aa">>>>,
      <<<<"ka", "ra">>, <<"_aa", "O">>, <<"_i", "E">>, <<"_aa", "II">>, <<"_aa", "E">>,
        <<"na", "_e">>, <<"na", "_ii">>, <<"na", "_aa">>, <<"ta", "_e">>, <<"_ii", "an">>,
        <<"ta", "_ii">>, <<"ta", "_aa">>, <<"_aa", "cb">>, <<"_aa", "an">>, <<"_o", "an">>,
        <<"_e", "an">>>>,
      <<<<"_aa", "ka", "ra">>, <<"_aa", "I", "E">>, <<"_aa", "II", "an">>,
        <<"_aa", "ya", "_aa">>, <<"_e", "ga", "_ii">>, <<"_e", "ga", "_aa">>,
        <<"_o", "ga", "_ii">>, <<"_o", "ga", "_e">>, <<"_aa", "na", "_e">>,
        <<"_aa", "na", "_aa">>, <<"_aa", "ta", "_e">>, <<"_aa", "ta", "_ii">>,
        <<"_aa", "ta", "_aa">>, <<"ta", "_ii", "an">>, <<"_aa", "O", "an">>,
        <<"_aa", "E", "an">>, <<"_u", "O", "an">>, <<"_u", "E", "an">>, <<"_u", "AA", "an">>>>,
      <<<<"_aa", "E", "ga", "_ii">>, <<"_aa", "E", "ga", "_aa">>,
        <<"_aa", "O", "ga", "_ii">>, <<"_aa", "O", "ga", "_e">>,
        <<"E", "an", "ga", "_ii">>, <<"_e", "an", "ga", "_ii">>, <<"E", "an", "ga", "_e">>,
        <<"_e", "an", "ga", "_e">>, <<"_uu", "an", "ga", "_ii">>,
        <<"_uu", "an", "ga", "_aa">>, <<"_aa", "ta", "_ii", "an">>,
        <<"na", "_aa", "O", "an">>, <<"na", "_aa", "E", "an">>, <<"ta", "_aa", "O", "an">>,
        <<"ta", "_aa", "E", "an">>, <<"_i", "ya", "_aa", "cb">>,
        <<"_i", "ya", "_o", "an">>, <<"_i", "ya", "_aa", "an">>>>,
      <<<<"_aa", "E", "an", "ga", "_ii">>, <<"_aa", "E", "an", "ga", "_e">>,
        <<"_aa", "UU", "an", "ga", "_ii">>, <<"_aa", "UU", "an", "ga", "_aa">>,
        <<"_aa", "I", "ya", "_aa", "cb">>, <<"_aa", "I", "ya", "_o", "an">>,
        <<"_aa", "I", "ya", "_aa", "an">>>>
    >>

\* for L in 1, 2, 3, 4, 5: the shortest suffix first
OrderShortestFirst ==
    <<1, 2, 3, 4, 5>>

\* for L in 5, 4, 3, 2, 1
Order ==
    <<5, 4, 3, 2, 1>>

\* str.endswith
EndsWith(w, suf) ==
    /\ Len(suf) <= Len(w)
    /\ SubSeq(w, Len(w) - Len(suf) + 1, Len(w)) = suf

\* word[:-L], for L > 0
DropLast(w, L) ==
    SubSeq(w, 1, IF Len(w) > L THEN Len(w) - L ELSE 0)

\* if len(word) > L: one character may remain
GuardOffByOne(w, L) ==
    Len(w) > L

\* if len(word) > L + 1
Guard(w, L) ==
    Len(w) > L + 1

\* for suf in suffixes[L]: if word.endswith(suf): ...  (from position j on)
RECURSIVE MatchFrom(_, _, _)
MatchFrom(w, L, j) ==
    IF j > Len(suffixes[L]) THEN FALSE
    ELSE IF EndsWith(w, suffixes[L][j]) THEN TRUE
    ELSE MatchFrom(w, L, j + 1)

\* the outer loop from position i of Order on
RECURSIVE StemFrom(_, _)
StemFrom(w, i) ==
    IF i > Len(Order) THEN w
    ELSE LET L == Order[i]
         IN  IF Guard(w, L) /\ MatchFrom(w, L, 1)
             THEN DropLast(w, L)
             ELSE StemFrom(w, i + 1)

stem(w) ==
    StemFrom(w, 1)

\* The characters words are built from: enough to spell a listed suffix of
\* every length (_aa E an ga _ii, and its tails), and words ending in none.
Alphabet ==
    {"_aa", "E", "an", "ga", "_ii"}

StemInit ==
    /\ word = <<>>
    /\ stemmed = FALSE
    /\ result = <<>>

AppendChar ==
    /\ Len(word) < MaxLen
    /\ \E c \in Alphabet : word' = Append(word, c)
    /\ stemmed' = FALSE
    /\ result' = <<>>

StemWord ==
    /\ ~stemmed
    /\ stemmed' = TRUE
    /\ result' = stem(word)
    /\ UNCHANGED word


\* ================================================================= driver

\* Error types edit.type can take: an operation prefix and categories joined
\* by ":", here as the sequence of their parts and separators.
Labels ==
    {<<"M", ":", "DET">>, <<"R", ":", "VERB", ":", "SVA">>}

\* The file args.orig: line i holds i - 1 tokens, so the first line is empty
\* and no two lines are equal.
OrigLine(i) ==
    [j \in 1..(i - 1) |-> "w"]

Exts ==
    {"m2", "src", "trg"}

\* edit.type.replace(":", "_")
FileName(type) ==
    [i \in DOMAIN type |-> IF type[i] = ":" THEN "_" ELSE type[i]]

FileNames ==
    {FileName(l) : l \in Labels}

\* [args.orig] + args.cor, as columns: 0 is the original
docs ==
    [i \in 1..(nCor + 1) |-> i - 1]

\* docs[1:]
cors ==
    Tail(docs)

\* enumerate(cors, 1): the index counts from 1
EnumIndexFromOne(p) ==
    p

\* the index enumerate(cors) pairs with position p (from 1) of cors
EnumIndex(p) ==
    p - 1

cor_id ==
    EnumIndex(cor_pos)

\* sep.join(parts)
RECURSIVE Join(_, _)
Join(sep, parts) ==
    IF Len(parts) = 0 THEN <<>>
    ELSE IF Len(parts) = 1 THEN <<parts[1]>>
    ELSE <<parts[1], sep>> \o Join(sep, Tail(parts))

NoEdit ==
    [type |-> <<>>, g |-> 0, col |-> 0, k |-> 0]

\* " ".join(["S"] + [token.text for token in temp1]) + "\n"
SLine(temp1) ==
    [kind |-> "S", text |-> Join(" ", <<"S">> \o temp1), edit |-> NoEdit, id |-> -1]

\* edit.to_m2(cor_id) + "\n"
ALine(edit, id) ==
    [kind |-> "A", text |-> <<>>, edit |-> edit, id |-> id]

\* "\n"
BlankLine ==
    [kind |-> "blank", text |-> <<>>, edit |-> NoEdit, id |-> -1]

\* src + '\n' and trg + '\n', of src, trg = edit.to_srctrg()
SrcLine(edit) ==
    [kind |-> "src", text |-> <<>>, edit |-> edit, id |-> -1]

TrgLine(edit) ==
    [kind |-> "trg", text |-> <<>>, edit |-> edit, id |-> -1]

\* error_count[edit.type] += 1: a new key goes last in the iteration order
Increment(counter, type) ==
    [keys |-> IF type \in Range(counter.keys) THEN counter.keys
              ELSE Append(counter.keys, type),
     n    |-> [counter.n EXCEPT ![type] = @ + 1]]

\* The calls of one pass of the loop over edits, in order; each may raise.
Steps ==
    <<"makedirs", "open_m2", "open_src", "open_trg", "write_S", "to_m2",
      "write_A", "write_blank", "to_srctrg", "write_src", "write_trg">>

StepNo(s) ==
    CHOOSE i \in DOMAIN Steps : Steps[i] = s

NoFailure ==
    Len(Steps) + 1

\* step s was completed when the pass raised at step number at
Done(s, at) ==
    StepNo(s) < at

IsIO(at) ==
    at <= Len(Steps) /\ Steps[at] \notin {"to_m2", "to_srctrg"}

\* tokens of the histogram file
KeyTok(type) ==
    [kind |-> "key", key |-> type, num |-> 0]

TabTok ==
    [kind |-> "tab", key |-> <<>>, num |-> 0]

NumTok(n) ==
    [kind |-> "num", key |-> <<>>, num |-> n]

NlTok ==
    [kind |-> "nl", key |-> <<>>, num |-> 0]

\* str(key) + '\t' + str(error_count[key])
HistEntry(counter, key) ==
    <<KeyTok(key), TabTok, NumTok(counter.n[key])>>

\* for key in error_count: error_file.write(...)
RECURSIVE HistFrom(_, _)
HistFrom(counter, i) ==
    IF i > Len(counter.keys) THEN <<>>
    ELSE HistEntry(counter, counter.keys[i]) \o HistFrom(counter, i + 1)

DriverInit ==
    /\ pc = "loop"
    /\ nCor \in 1..MaxCor
    /\ g = 0
    /\ orig = <<>>
    /\ cor_pos = 1
    /\ edits = <<>>
    /\ error_count = [keys |-> <<>>, n |-> [l \in Labels |-> 0]]
    /\ out_m2 = {}
    /\ files = [f \in FileNames |-> [x \in Exts |-> <<>>]]
    /\ opened = [f \in FileNames |-> [x \in Exts |-> 0]]
    /\ live = [f \in FileNames |-> [x \in Exts |-> 0]]
    /\ error_file = <<>>
    /\ histWrites = 0
    /\ exc = FALSE
    /\ failed = {}
    /\ owed = {}
    /\ last = "start"
    /\ nEdits = 0
    /\ nFail = 0
    /\ cutShort = {}

\* for lines in zip(*files): the next group of lines
ReadGroup ==
    /\ pc = "loop"
    /\ g < MaxGroups
    /\ g' = g + 1
    /\ orig' = OrigLine(g + 1)
    /\ pc' = "parse"
    /\ last' = "read"
    /\ UNCHANGED <<nCor, cor_pos, edits, error_count, out_m2, files,
                   opened, live, error_file, histWrites, exc>>
    /\ UNCHANGED <<failed, owed, nEdits, nFail, cutShort>>
    /\ UNCHANGED stemVars

\* zip(*files) is exhausted: the try block ends
EndOfInput ==
    /\ pc = "loop"
    /\ pc' = "finally"
    /\ last' = "eof"
    /\ UNCHANGED <<nCor, g, orig, cor_pos, edits, error_count, out_m2,
                   files, opened, live, error_file, histWrites, exc>>
    /\ UNCHANGED <<failed, owed, nEdits, nFail, cutShort>>
    /\ UNCHANGED stemVars

\* reading the next lines raises (a decoding error, an interrupt): the
\* for statement is outside the inner try, so the exception leaves the loop
ReadFail ==
    /\ pc = "loop"
    /\ nFail < MaxFail
    /\ nFail' = nFail + 1
    /\ exc' = TRUE
    /\ pc' = "finally"
    /\ last' = "read_failed"
    /\ UNCHANGED <<nCor, g, orig, cor_pos, edits, error_count, out_m2,
                   files, opened, live, error_file, histWrites>>
    /\ UNCHANGED <<failed, owed, nEdits, cutShort>>
    /\ UNCHANGED stemVars

\* no inner try in main: the exception leaves the loop
AfterParseFailureAborts ==
    "finally"

\* where main goes when parsing a group raised: except Exception: print(...)
AfterParseFailure ==
    "loop"

\* docs = tuple(annotator.parse(line, args.tok) for line in lines), and the
\* start of process_sentences
Parse ==
    /\ pc = "parse"
    /\ \/ /\ pc' = "cor"
          /\ cor_pos' = 1
          /\ last' = "parsed"
          /\ UNCHANGED <<failed, nFail>>
       \/ /\ nFail < MaxFail
          /\ nFail' = nFail + 1
          /\ pc' = AfterParseFailure
          /\ failed' = failed \cup {g}
          /\ last' = "parse_failed"
          /\ UNCHANGED cor_pos
    /\ UNCHANGED <<nCor, g, orig, edits, error_count, out_m2, files,
                   opened, live, error_file, histWrites, exc>>
    /\ UNCHANGED <<owed, nEdits, cutShort>>
    /\ UNCHANGED stemVars

\* where process_sentences goes when annotate or a pass over an edit raised:
\* except Exception: print(...), then the next cor
AfterCorFailure ==
    "cor"

\* edits = annotator.annotate(orig, cor, args.lev, args.merge)
Annotate ==
    /\ pc = "cor"
    /\ cor_pos <= Len(cors)
    /\ \/ /\ nFail < MaxFail
          /\ nFail' = nFail + 1
          /\ failed' = failed \cup {g}
          /\ pc' = AfterCorFailure
          /\ cor_pos' = cor_pos + 1
          /\ last' = "annotate_failed"
          /\ owed' = {e \in owed : e.g # g}
          /\ UNCHANGED <<edits, nEdits>>
       \/ \E types \in SeqsUpTo(Labels, MaxEdits - nEdits) :
            LET es == [k \in DOMAIN types |->
                         [type |-> types[k], g |-> g, col |-> cors[cor_pos], k |-> k]]
            IN  /\ owed' = IF g \in failed THEN owed ELSE owed \cup Range(es)
                /\ nEdits' = nEdits + Len(es)
                /\ edits' = es
                /\ IF es = <<>>
                   THEN /\ cor_pos' = cor_pos + 1
                        /\ last' = "no_edits"
                        /\ UNCHANGED pc
                   ELSE /\ pc' = "edit"
                        /\ last' = "owed"
                        /\ UNCHANGED cor_pos
                /\ UNCHANGED <<failed, nFail>>
    /\ UNCHANGED <<nCor, g, orig, error_count, out_m2, files, opened,
                   live, error_file, histWrites, exc>>
    /\ UNCHANGED <<cutShort>>
    /\ UNCHANGED stemVars

\* the loop over cors is exhausted: process_sentences returns
EndCors ==
    /\ pc = "cor"
    /\ cor_pos > Len(cors)
    /\ pc' = "loop"
    /\ last' = "returned"
    /\ UNCHANGED <<nCor, g, orig, cor_pos, edits, error_count, out_m2,
                   files, opened, live, error_file, histWrites, exc>>
    /\ UNCHANGED <<failed, owed, nEdits, nFail, cutShort>>
    /\ UNCHANGED stemVars

\* the lines a pass that raised at step `at` appended to the three files
Written(edit, temp1, id, at) ==
    [m2  |-> (IF Done("write_S", at) THEN <<SLine(temp1)>> ELSE <<>>)
             \o (IF Done("write_A", at) THEN <<ALine(edit, id)>> ELSE <<>>)
             \o (IF Done("write_blank", at) THEN <<BlankLine>> ELSE <<>>),
     src |-> IF Done("write_src", at) THEN <<SrcLine(edit)>> ELSE <<>>,
     trg |-> IF Done("write_trg", at) THEN <<TrgLine(edit)>> ELSE <<>>]

\* one pass of `for edit in edits`; at is the step that raises, if any.
\* A handle opened before a later open of the same statement raised is bound
\* to no name: whether it is closed is up to the runtime's collector
\* (collected = TRUE: closed at once, as by reference counting).
ProcessEdit ==
    /\ pc = "edit"
    /\ edits # <<>>
    /\ \E at \in 1..NoFailure, collected \in BOOLEAN :
         LET edit == Head(edits)
             file_name == FileName(edit.type)
             opening == file_name \notin out_m2
             ok(x) == opening /\ Done("open_" \o x, at)
             registered == opening /\ Done("open_trg", at)
             w == Written(edit, orig, cor_id, at)
         IN  /\ at <= StepNo("open_trg") => opening
             /\ collected => (opening /\ ~registered /\ ok("m2"))
             /\ at # NoFailure => nFail < MaxFail
             /\ nFail' = IF at = NoFailure THEN nFail ELSE nFail + 1
             /\ error_count' = Increment(error_count, edit.type)
             /\ opened' = [opened EXCEPT ![file_name] =
                             [x \in Exts |-> IF ok(x) THEN @[x] + 1 ELSE @[x]]]
             /\ live' = [live EXCEPT ![file_name] =
                           [x \in Exts |-> IF ok(x) /\ ~collected THEN @[x] + 1 ELSE @[x]]]
             /\ out_m2' = IF registered THEN out_m2 \cup {file_name} ELSE out_m2
             /\ files' = [files EXCEPT ![file_name] =
                            [x \in Exts |-> (IF ok(x) THEN <<>> ELSE @[x]) \o w[x]]]
             /\ IF at = NoFailure
                THEN /\ edits' = Tail(edits)
                     /\ IF Tail(edits) = <<>>
                        THEN pc' = "cor" /\ cor_pos' = cor_pos + 1
                        ELSE UNCHANGED <<pc, cor_pos>>
                     /\ last' = "edit_ok"
                     /\ UNCHANGED <<failed, owed, cutShort>>
                ELSE /\ edits' = <<>>
                     /\ pc' = AfterCorFailure
                     /\ cor_pos' = cor_pos + 1
                     /\ failed' = failed \cup {g}
                     /\ owed' = {e \in owed : e.g # g}
                     /\ last' = IF IsIO(at) THEN "io_failed" ELSE "serialise_failed"
                     /\ cutShort' = IF Done("write_A", at) /\ ~Done("write_blank", at)
                                    THEN cutShort \cup {edit} ELSE cutShort
    /\ UNCHANGED <<nCor, g, orig, error_file, histWrites, exc>>
    /\ UNCHANGED <<nEdits>>
    /\ UNCHANGED stemVars

\* the handles `finally` closes on path <<f, x>>:
\* for out_file in out_files: list(map(lambda file: file.close(), ...))
Closed(f, x) ==
    IF f \in out_m2 THEN 1 ELSE 0

Finally ==
    /\ pc = "finally"
    /\ live' = [f \in FileNames |-> [x \in Exts |-> live[f][x] - Closed(f, x)]]
    /\ pc' = IF exc THEN "raised" ELSE "hist"
    /\ last' = "closed"
    /\ UNCHANGED <<nCor, g, orig, cor_pos, edits, error_count, out_m2,
                   files, opened, error_file, histWrites, exc>>
    /\ UNCHANGED <<failed, owed, nEdits, nFail, cutShort>>
    /\ UNCHANGED stemVars

\* with open('error_file', 'w') as error_file: ...
WriteHistogram ==
    /\ pc = "hist"
    /\ error_file' = HistFrom(error_count, 1)
    /\ histWrites' = histWrites + 1
    /\ pc' = "done"
    /\ last' = "written"
    /\ UNCHANGED <<nCor, g, orig, cor_pos, edits, error_count, out_m2,
                   files, opened, live, exc>>
    /\ UNCHANGED <<failed, owed, nEdits, nFail, cutShort>>
    /\ UNCHANGED stemVars

\* ========================================================= specifications

DriverIdle ==
    /\ pc = "idle"
    /\ nCor = 1
    /\ g = 0
    /\ orig = <<>>
    /\ cor_pos = 1
    /\ edits = <<>>
    /\ error_count = [keys |-> <<>>, n |-> [l \in Labels |-> 0]]
    /\ out_m2 = {}
    /\ files = [f \in FileNames |-> [x \in Exts |-> <<>>]]
    /\ opened = [f \in FileNames |-> [x \in Exts |-> 0]]
    /\ live = [f \in FileNames |-> [x \in Exts |-> 0]]
    /\ error_file = <<>>
    /\ histWrites = 0
    /\ exc = FALSE
    /\ failed = {}
    /\ owed = {}
    /\ last = "start"
    /\ nEdits = 0
    /\ nFail = 0
    /\ cutShort = {}

Init ==
    DriverInit /\ StemInit

Next ==
    \/ ReadGroup
    \/ EndOfInput
    \/ ReadFail
    \/ Parse
    \/ Annotate
    \/ EndCors
    \/ ProcessEdit
    \/ Finally
    \/ WriteHistogram

Spec ==
    Init /\ [][Next]_vars

InitStem ==
    DriverIdle /\ StemInit

NextStem ==
    \/ AppendChar /\ UNCHANGED <<driverVars, historyVars>>
    \/ StemWord /\ UNCHANGED <<driverVars, historyVars>>

SpecStem ==
    InitStem /\ [][NextStem]_vars


\* ================================================================== claims

\* the lines of a file of tokens: the text between line ends
RECURSIVE SplitLines(_, _)
SplitLines(tokens, line) ==
    IF tokens = <<>> THEN (IF line = <<>> THEN <<>> ELSE <<line>>)
    ELSE IF Head(tokens) = NlTok THEN <<line>> \o SplitLines(Tail(tokens), <<>>)
    ELSE SplitLines(Tail(tokens), Append(line, Head(tokens)))

\* the positions of the annotation lines of a per-type .m2 file
ALines(f) ==
    {i \in DOMAIN files[f]["m2"] : files[f]["m2"][i].kind = "A"}

\* edit e has its annotation line, its source line and its target line
WrittenOut(e) ==
    LET f == FileName(e.type)
    IN  /\ \E i \in ALines(f) : files[f]["m2"][i].edit = e
        /\ SrcLine(e) \in Range(files[f]["src"])
        /\ TrgLine(e) \in Range(files[f]["trg"])

\* C1: a call that raises while a line group is parsed, annotated or
\* serialised never ends the run: the program goes on with the next corrector
\* or the next group, the loop over the groups is left only at the end of the
\* input (or when reading itself raises), and every edit annotate returned in
\* a group where nothing raised is in its per-type files.
C1_FailureNeverAborts ==
    /\ last \in {"parse_failed", "annotate_failed", "serialise_failed"}
         => (pc \in {"loop", "cor"} /\ ~exc)
    /\ pc = "finally" => last \in {"eof", "read_failed"}
    /\ exc => pc \in {"finally", "raised"}
    /\ \A e \in owed : (pc = "edit" /\ e \in Range(edits)) \/ WrittenOut(e)

\* a run that ended normally in which group 1 failed and an edit of the later
\* group 2 was written
C1_Witness ==
    /\ pc = "done"
    /\ 1 \in failed
    /\ \E e \in owed : e.g = 2 /\ WrittenOut(e)

\* C2: once main has left the with block, on any path, no output handle that
\* was opened is still open.
C2_AllHandlesClosed ==
    pc \in {"hist", "done", "raised"}
        => \A f \in FileNames, x \in Exts : live[f][x] = 0

\* C3: when opening or writing a per-type file raises, the run stops with the
\* error: the exception leaves the loop and no further group is processed.
C3_IOFailureIsFatal ==
    last = "io_failed" => (pc = "finally" /\ exc)

\* C4: each of the three files of a label is opened at most once in a run,
\* and only for a label some edit has had.
C4_OpenedLazilyOnce ==
    \A f \in FileNames, x \in Exts :
        /\ opened[f][x] <= 1
        /\ opened[f][x] > 0 => \E l \in Range(error_count.keys) : FileName(l) = f

\* C5: at the end of a run the histogram was written once and holds exactly
\* one line <label> TAB <count> per observed label (stated for the runs where
\* nothing raised, in which the tally is the number of edits of the label).
C5_HistogramLines ==
    (pc = "done" /\ nFail = 0) =>
        LET lines == SplitLines(error_file, <<>>)
            observed == {l \in Labels : error_count.n[l] > 0}
        IN  /\ histWrites = 1
            /\ Len(lines) = Cardinality(observed)
            /\ Range(lines) = {<<KeyTok(l), TabTok, NumTok(error_count.n[l])>> : l \in observed}

\* the annotation line at position i of the .m2 file f comes right after the
\* S line of the original of its own group and carries the 0-based position
\* of its corrected document among the corrected inputs
AfterItsSLine(f, i) ==
    LET m2 == files[f]["m2"]
    IN  /\ i > 1
        /\ m2[i - 1] = [kind |-> "S", text |-> Join(" ", <<"S">> \o OrigLine(m2[i].edit.g)),
                        edit |-> NoEdit, id |-> -1]
        /\ m2[i].id = m2[i].edit.col - 1

BeforeBlank(f, i) ==
    LET m2 == files[f]["m2"]
    IN  i < Len(m2) /\ m2[i + 1].kind = "blank"

Admissible(w) ==
    {L \in 1..5 : Len(w) > L + 1 /\ \E suf \in Range(suffixes[L]) : EndsWith(w, suf)}

C9_MinimumRemains ==
    stemmed =>
        /\ Len(result) <= Len(word)
        /\ \A i \in 1..Len(result) : result[i] = word[i]
        /\ result # word => Len(result) >= 2
        /\ Len(word) - Len(result) <= 5
        /\ Len(word) <= 2 => result = word

\* a word of 2 characters that ends with a listed suffix is left alone
C9_Witness ==
    /\ stemmed
    /\ Len(word) = 2
    /\ \E suf \in Range(suffixes[1]) : EndsWith(word, suf)
    /\ result = word

\* C8: when annotate returns no edit for a corrected sentence, the driver
\* has written one annotation line with label noop for it.
C8_NoopSentinel ==
    last = "no_edits" =>
        \E f \in FileNames : \E i \in ALines(f) :
            LET e == files[f]["m2"][i].edit
            IN  e.type = <<"noop">> /\ e.g = g /\ e.col = cors[cor_pos - 1]

\* C10: at the end of a run, for every label, the tally, the number of
\* annotation blocks in the .m2 file, the number of lines of the .src file
\* and the number of lines of the .trg file are the same.
C10_OutputsAgree ==
    pc = "done" =>
        \A l \in Labels :
            LET f == FileName(l)
            IN  /\ error_count.n[l] = Cardinality(ALines(f))
                /\ error_count.n[l] = Len(files[f]["src"])
                /\ error_count.n[l] = Len(files[f]["trg"])

=============================================================================
